---- MODULE Spec2Model ----
(***************************************************************************)
(* Model of git_tool.py: the directory comparison (get_all_files, the      *)
(* classification loop of run_compare), the ignore-list editor             *)
(* (add_to_gitignore) and the two interactive sessions (run_status_check,  *)
(* run_compare).                                                           *)
(*                                                                         *)
(* A Python str is a sequence of one-character strings.  The element       *)
(* "sup2" stands for the single character U+00B2 (superscript two), for    *)
(* which str.isdigit() is True and int() raises ValueError.                *)
(***************************************************************************)
EXTENDS Integers, Sequences, FiniteSets, TLC

\* ------------------------------------------------------------------------
\* Bounds of the model
\* ------------------------------------------------------------------------
\* largest number a user types at a prompt
MaxNum == 2
\* number of appends to an ignore file after which no further pattern is chosen
MaxWrites == 1
\* number of direct calls of add_to_gitignore
MaxCalls == 2
\* length of the ignore file the direct calls start from
MaxInitLen == 2
\* length of the target paths add_to_gitignore is called with
MaxPathLen == 5

\* ------------------------------------------------------------------------
\* Strings
\* ------------------------------------------------------------------------
NL == "\n"

AsciiDigits == <<"0", "1", "2", "3", "4", "5", "6", "7", "8", "9">>

\* ord() of the characters that occur in paths
CharCode ==
  [c \in {".", "/", "a", "b", "d", "e", "g", "i", "n", "o", "r", "t", "x"} |->
     CASE c = "." -> 46 [] c = "/" -> 47 [] c = "a" -> 97 [] c = "b" -> 98
       [] c = "d" -> 100 [] c = "e" -> 101 [] c = "g" -> 103 [] c = "i" -> 105
       [] c = "n" -> 110 [] c = "o" -> 111 [] c = "r" -> 114 [] c = "t" -> 116
       [] c = "x" -> 120]

\* s < t for Python strings
RECURSIVE StrLess(_, _)
StrLess(s, t) ==
  IF s = <<>> THEN t # <<>>
  ELSE IF t = <<>> THEN FALSE
  ELSE IF Head(s) = Head(t) THEN StrLess(Tail(s), Tail(t))
  ELSE CharCode[Head(s)] < CharCode[Head(t)]

\* sorted(list(S)) for a set of strings
RECURSIVE sorted(_)
sorted(S) ==
  IF S = {} THEN <<>>
  ELSE LET m == CHOOSE x \in S : \A y \in S \ {x} : StrLess(x, y)
       IN <<m>> \o sorted(S \ {m})

\* s.startswith(pre)
StartsWith(s, pre) ==
  Len(pre) <= Len(s) /\ SubSeq(s, 1, Len(pre)) = pre

\* s.endswith(suf)
EndsWith(s, suf) ==
  Len(suf) <= Len(s) /\ SubSeq(s, Len(s) - Len(suf) + 1, Len(s)) = suf

\* pat in s : plain substring containment
Contains(s, pat) ==
  \E i \in 1..(Len(s) + 1) :
    i + Len(pat) - 1 <= Len(s) /\ SubSeq(s, i, i + Len(pat) - 1) = pat

\* s.split(sep) for a one-character separator
RECURSIVE Split(_, _)
Split(s, sep) ==
  IF \A i \in 1..Len(s) : s[i] # sep THEN <<s>>
  ELSE LET k == CHOOSE i \in 1..Len(s) :
                  s[i] = sep /\ \A j \in 1..(i - 1) : s[j] # sep
       IN <<SubSeq(s, 1, k - 1)>> \o Split(SubSeq(s, k + 1, Len(s)), sep)

\* sep.join(parts)
RECURSIVE Join(_, _)
Join(parts, sep) ==
  IF parts = <<>> THEN <<>>
  ELSE IF Len(parts) = 1 THEN parts[1]
  ELSE parts[1] \o <<sep>> \o Join(Tail(parts), sep)

\* s.strip() : the only whitespace in the modelled inputs is the blank
RECURSIVE LStrip(_)
LStrip(s) == IF s # <<>> /\ Head(s) = " " THEN LStrip(Tail(s)) ELSE s

RECURSIVE RStrip(_)
RStrip(s) ==
  IF s # <<>> /\ s[Len(s)] = " " THEN RStrip(SubSeq(s, 1, Len(s) - 1)) ELSE s

Strip(s) == RStrip(LStrip(s))

\* s.lower() on the letters the commands use
Lower(s) ==
  [k \in 1..Len(s) |->
     CASE s[k] = "Q" -> "q" [] s[k] = "I" -> "i" [] s[k] = "C" -> "c"
       [] OTHER -> s[k]]

IsAsciiDigit(c) == \E k \in 1..10 : AsciiDigits[k] = c

DigitVal(c) == (CHOOSE k \in 1..10 : AsciiDigits[k] = c) - 1

\* str.isdigit(): non-empty and every character is a digit character;
\* U+00B2 is one of them
IsDigit(s) ==
  s # <<>> /\ \A k \in 1..Len(s) : IsAsciiDigit(s[k]) \/ s[k] = "sup2"

RECURSIVE DecVal(_)
DecVal(s) ==
  IF s = <<>> THEN 0 ELSE 10 * DecVal(SubSeq(s, 1, Len(s) - 1)) + DigitVal(s[Len(s)])

AllAscii(s) == s # <<>> /\ \A k \in 1..Len(s) : IsAsciiDigit(s[k])

\* int(s) succeeds: optional sign and ASCII decimal digits, surrounding blanks
\* allowed; otherwise int(s) raises ValueError
IntParses(s) ==
  LET t == Strip(s) IN
    \/ AllAscii(t)
    \/ t # <<>> /\ Head(t) \in {"-", "+"} /\ AllAscii(Tail(t))

\* int(s) where it succeeds
IntOf(s) ==
  LET t == Strip(s) IN
    IF AllAscii(t) THEN DecVal(t)
    ELSE IF Head(t) = "-" THEN 0 - DecVal(Tail(t))
    ELSE DecVal(Tail(t))

\* ------------------------------------------------------------------------
\* Paths (pathlib.Path on a POSIX system)
\* ------------------------------------------------------------------------
\* Path(p).parts
Parts(p) == SelectSeq(Split(p, "/"), LAMBDA c : c # <<>>)

\* Path(p).name
Name(p) == LET ps == Parts(p) IN IF ps = <<>> THEN <<>> ELSE ps[Len(ps)]

\* Path(p).suffix : from the last dot of the name, unless that dot is the
\* first or the last character of the name
Suffix(p) ==
  LET n == Name(p)
      dots == {k \in 1..Len(n) : n[k] = "."}
  IN IF dots = {} THEN <<>>
     ELSE LET k == CHOOSE d \in dots : \A e \in dots : e <= d
          IN IF 1 < k /\ k < Len(n) THEN SubSeq(n, k, Len(n)) ELSE <<>>

\* str(Path(p).parent)
Parent(p) ==
  LET ps == Parts(p)
  IN IF Len(ps) <= 1 THEN <<".">> ELSE Join(SubSeq(ps, 1, Len(ps) - 1), "/")

\* ------------------------------------------------------------------------
\* The environment: two directory trees, git, the ignore files
\* ------------------------------------------------------------------------
Trees == {"pro", "dev"}

\* the working directory of the `check` subcommand
Cwd == "dev"

PathA == <<"a">>
PathDBX == <<"d", "/", "b", ".", "x">>
GitignoreName == <<".", "g", "i", "t", "i", "g", "n", "o", "r", "e">>

\* the ordinary files a tree may hold
AllPaths == {PathA, PathDBX}

Absent == [present |-> FALSE, bytes |-> "", mtime |-> 0]

VARIABLES
  gitInstalled,   \* the git binary can be executed
  isRepo,         \* isRepo[t]: git commands run in tree t succeed
  exists,         \* exists[t]: the directory of tree t exists
  disk,           \* disk[t][p]: the file p of tree t (content, mtime) or Absent
  tracked,        \* tracked[t]: the paths in the git index of tree t
  denied,         \* opening the ignore file of the dev root raises OSError
  ignore_names,   \* compare.ignore_names of the configuration
  gitignore       \* gitignore[t]: the file .gitignore at the root of tree t

envVars == <<gitInstalled, isRepo, exists, disk, tracked, denied, ignore_names>>

\* the regular files present in tree t
OnDisk(t) ==
  {p \in AllPaths : disk[t][p].present}
    \cup (IF gitignore[t].exists THEN {GitignoreName} ELSE {})

\* the bytes of file p of tree t
Bytes(t, p) == IF p = GitignoreName THEN gitignore[t].text ELSE disk[t][p].bytes

\* one line of an ignore file matches path p (the rules of gitignore for the
\* patterns the tool writes: literal path, *suffix, directory/)
LineMatches(line, p) ==
  IF line = <<>> THEN FALSE
  ELSE IF line[Len(line)] = "/"
    THEN StartsWith(p, line)
  ELSE IF Head(line) = "*"
    THEN EndsWith(Name(p), Tail(line))
  ELSE IF \E k \in 1..Len(line) : line[k] = "/"
    THEN p = line \/ StartsWith(p, line \o <<"/">>)
  ELSE \E k \in 1..Len(Parts(p)) : Parts(p)[k] = line

\* path p is excluded by the ignore file of tree t
GitIgnored(t, p) ==
  /\ gitignore[t].exists
  /\ LET lines == Split(gitignore[t].text, NL)
     IN \E k \in 1..Len(lines) : LineMatches(lines[k], p)

\* git -C t ls-files --cached --others --exclude-standard
git_ls_files(t) ==
  tracked[t] \cup {p \in OnDisk(t) \ tracked[t] : ~GitIgnored(t, p)}

\* the invocation of git in tree t succeeds
GitRuns(t) == gitInstalled /\ isRepo[t]

DotGit == <<".", "g", "i", "t">>
PyCache == <<"_", "_", "p", "y", "c", "a", "c", "h", "e", "_", "_">>
DSStore == <<".", "D", "S", "_", "S", "t", "o", "r", "e">>

\* any(name in parts for name in ignore_names)
HasIgnoredPart(p, names) ==
  \E k \in 1..Len(Parts(p)) : Parts(p)[k] \in names

\* get_all_files whose recursive walk does not filter by ignore_names
get_all_files_walk_unfiltered(t, names) ==
  IF ~exists[t] THEN {}
  ELSE IF GitRuns(t)
    THEN {p \in git_ls_files(t) : ~HasIgnoredPart(p, names)}
  ELSE {p \in OnDisk(t) :
          /\ ~HasIgnoredPart(p, {DotGit, PyCache})
          /\ Name(p) # DSStore}

get_all_files(t, names) ==
  IF ~exists[t] THEN {}
  ELSE IF GitRuns(t)
    THEN {p \in git_ls_files(t) : ~HasIgnoredPart(p, names)}
  ELSE {p \in OnDisk(t) :
          /\ ~HasIgnoredPart(p, {DotGit, PyCache})
          /\ Name(p) # DSStore
          /\ ~HasIgnoredPart(p, names)}

\* filecmp.cmp(pro/f, dev/f, shallow=False) raises OSError
cmp_raises(f) == ~(f \in OnDisk("pro") /\ f \in OnDisk("dev"))

\* filecmp.cmp(pro/f, dev/f, shallow=False): the contents are equal
filecmp_cmp(f) == Bytes("pro", f) = Bytes("dev", f)

EmptyLists ==
  [raised |-> FALSE, common_files |-> <<>>, only_pro |-> <<>>,
   only_dev |-> <<>>, diff_files |-> <<>>]

\* the loop over all_files; stops at the first comparison that raises
RECURSIVE classify(_, _, _, _)
classify(all_files, pro, dev, acc) ==
  IF all_files = <<>> THEN acc
  ELSE LET f == Head(all_files)
           rest == Tail(all_files)
       IN IF f \in pro /\ f \in dev
            THEN IF cmp_raises(f) THEN [acc EXCEPT !.raised = TRUE]
                 ELSE IF ~filecmp_cmp(f)
                   THEN classify(rest, pro, dev,
                          [acc EXCEPT !.diff_files = Append(@, f)])
                 ELSE classify(rest, pro, dev,
                          [acc EXCEPT !.common_files = Append(@, f)])
          ELSE IF f \in pro
            THEN classify(rest, pro, dev, [acc EXCEPT !.only_pro = Append(@, f)])
          ELSE IF f \in dev
            THEN classify(rest, pro, dev, [acc EXCEPT !.only_dev = Append(@, f)])
          ELSE classify(rest, pro, dev, acc)

\* make_target_list that puts the files of PRO only before those of DEV only
make_target_list_pro_first(c) ==
  [k \in 1..Len(c.diff_files) |-> [type |-> "diff", path |-> c.diff_files[k]]]
    \o [k \in 1..Len(c.only_pro) |-> [type |-> "pro_only", path |-> c.only_pro[k]]]
    \o [k \in 1..Len(c.only_dev) |-> [type |-> "dev_only", path |-> c.only_dev[k]]]

\* the display list: modified, then dev only, then pro only
make_target_list(c) ==
  [k \in 1..Len(c.diff_files) |-> [type |-> "diff", path |-> c.diff_files[k]]]
    \o [k \in 1..Len(c.only_dev) |-> [type |-> "dev_only", path |-> c.only_dev[k]]]
    \o [k \in 1..Len(c.only_pro) |-> [type |-> "pro_only", path |-> c.only_pro[k]]]

\* ------------------------------------------------------------------------
\* git status and the ignore-list editor
\* ------------------------------------------------------------------------
StatusDeleted == <<" ", "D">>
StatusModified == <<" ", "M">>
StatusUntracked == <<"?", "?">>

\* the content every tracked file has in HEAD
HeadBytes == "x"

\* how git status names the untracked file u: the outermost directory above
\* it that holds no tracked file, with a trailing slash, or u itself
StatusPath(u) ==
  LET ps == Parts(u)
      ks == {k \in 1..(Len(ps) - 1) :
               ~\E t \in tracked[Cwd] :
                   /\ Len(Parts(t)) >= k
                   /\ SubSeq(Parts(t), 1, k) = SubSeq(ps, 1, k)}
  IN IF ks = {} THEN u
     ELSE LET k == CHOOSE j \in ks : \A i \in ks : j <= i
          IN Join(SubSeq(ps, 1, k), "/") \o <<"/">>

\* git status --porcelain in the working directory, parsed into
\* {"status": line[:2], "path": line[3:]}: the changed tracked files, then the
\* untracked files that are not ignored, a wholly untracked directory as one
\* entry
git_status_entries ==
  LET changed == {p \in tracked[Cwd] :
                    ~disk[Cwd][p].present \/ disk[Cwd][p].bytes # HeadBytes}
      untracked == {StatusPath(p) :
                      p \in {q \in OnDisk(Cwd) \ tracked[Cwd] : ~GitIgnored(Cwd, q)}}
      cs == sorted(changed)
      us == sorted(untracked)
  IN [k \in 1..Len(cs) |->
        [status |-> IF disk[Cwd][cs[k]].present THEN StatusModified
                    ELSE StatusDeleted,
         path |-> cs[k]]]
     \o [k \in 1..Len(us) |-> [status |-> StatusUntracked, path |-> us[k]]]

\* make_options that offers the directory before the extension
make_options_parent_first(target) ==
  <<target>>
    \o (IF Parent(target) # <<".">> THEN << Parent(target) \o <<"/">> >> ELSE <<>>)
    \o (IF Suffix(target) # <<>> THEN << <<"*">> \o Suffix(target) >> ELSE <<>>)

\* the candidate patterns add_to_gitignore offers for a target
make_options(target) ==
  <<target>>
    \o (IF Suffix(target) # <<>> THEN << <<"*">> \o Suffix(target) >> ELSE <<>>)
    \o (IF Parent(target) # <<".">> THEN << Parent(target) \o <<"/">> >> ELSE <<>>)

NoFile == [exists |-> FALSE, text |-> <<>>]

\* write_pattern that appends the pattern without the newline before it
write_pattern_no_newline(file, pat, isDenied) ==
  IF isDenied
    THEN [ok |-> FALSE, what |-> "write_error", file |-> file]
  ELSE IF file.exists /\ Contains(file.text, pat)
    THEN [ok |-> TRUE, what |-> "already_present", file |-> file]
  ELSE [ok |-> TRUE, what |-> "added",
        file |-> [exists |-> TRUE, text |-> file.text \o pat \o <<NL>>]]

\* write_pattern without the check for a pattern that is already present
write_pattern_unchecked(file, pat, isDenied) ==
  IF isDenied
    THEN [ok |-> FALSE, what |-> "write_error", file |-> file]
  ELSE [ok |-> TRUE, what |-> "added",
        file |-> [exists |-> TRUE, text |-> file.text \o <<NL>> \o pat \o <<NL>>]]

\* the try block of add_to_gitignore for the chosen pattern: the result and
\* the ignore file afterwards
write_pattern(file, pat, isDenied) ==
  IF isDenied
    THEN [ok |-> FALSE, what |-> "write_error", file |-> file]
  ELSE IF file.exists /\ Contains(file.text, pat)
    THEN [ok |-> TRUE, what |-> "already_present", file |-> file]
  ELSE [ok |-> TRUE, what |-> "added",
        file |-> [exists |-> TRUE, text |-> file.text \o <<NL>> \o pat \o <<NL>>]]

\* one pass of the input loop of add_to_gitignore
\*   "again"      : the loop prompts again
\*   "cancel"     : return False
\*   "ValueError" : int(choice) raises
\*   "chosen"     : pattern = options[idx]
read_choice(line, opts) ==
  LET c == Lower(Strip(line)) IN
    IF c = <<"c">> THEN [kind |-> "cancel", idx |-> 0]
    ELSE IF IsDigit(c)
      THEN IF ~IntParses(c) THEN [kind |-> "ValueError", idx |-> 0]
           ELSE IF 0 <= IntOf(c) - 1 /\ IntOf(c) - 1 < Len(opts)
             THEN [kind |-> "chosen", idx |-> IntOf(c) - 1]
           ELSE [kind |-> "again", idx |-> 0]
    ELSE [kind |-> "again", idx |-> 0]

\* ------------------------------------------------------------------------
\* The program state
\* ------------------------------------------------------------------------
VARIABLES
  command,          \* the subcommand: "check" or "compare"
  pc,               \* "start", the blocking input point, "done" or "crashed"
  changes,          \* run_status_check: the change list
  pro_files,        \* run_compare: the enumeration of the PRO tree
  dev_files,        \* run_compare: the enumeration of the DEV tree
  common_files,     \* run_compare: identical files
  only_pro,         \* run_compare: files of PRO only
  only_dev,         \* run_compare: files of DEV only
  diff_files,       \* run_compare: modified files
  target_list,      \* run_compare: the display list
  git_root,         \* add_to_gitignore: the tree whose ignore file is edited
  target_rel_path,  \* add_to_gitignore: the target
  options,          \* add_to_gitignore: the candidates offered
  pattern,          \* add_to_gitignore: the pattern last confirmed
  choice,           \* the line last read, stripped
  lastRead,         \* "none", "line" or "KeyboardInterrupt"
  out,              \* what the last handler printed, and its calls of git status
  writes,           \* number of appends to an ignore file
  calls,            \* number of direct calls of add_to_gitignore
  args,             \* main: args.pro and args.dev of the command line
  config,           \* main: what load_config() returns
  pro_dir,          \* main: the PRO directory after the merge
  dev_dir           \* main: the DEV directory after the merge

listVars ==
  <<changes, pro_files, dev_files, common_files, only_pro, only_dev,
    diff_files, target_list>>

dlgVars == <<git_root, target_rel_path, options>>

mainVars == <<args, config, pro_dir, dev_dir>>

vars ==
  <<gitInstalled, isRepo, exists, disk, tracked, denied, ignore_names,
    gitignore, command, pc, changes, pro_files, dev_files, common_files,
    only_pro, only_dev, diff_files, target_list, git_root, target_rel_path,
    options, pattern, choice, lastRead, out, writes, calls, args, config,
    pro_dir, dev_dir>>

Ev(w, m) == [what |-> w, msg |-> m]

\* print_menu(message)
Menu(m) == Ev("menu", m)

\* get_git_root(path): "FileNotFoundError" (no git binary; not caught),
\* "None" (git fails) or the root
get_git_root(t) ==
  IF ~gitInstalled THEN "FileNotFoundError"
  ELSE IF ~isRepo[t] THEN "None"
  ELSE t

NumStr(n) == <<AsciiDigits[n + 1]>>

\* the lines a user types at the prompt of a session
Lines ==
  {<<>>, <<"q">>, <<"x">>, <<"i">>, <<"i", "x">>, <<"sup2">>, <<"I", "1">>}
    \cup {NumStr(n) : n \in 0..MaxNum}
    \cup {<<"i", " ">> \o NumStr(n) : n \in 0..MaxNum}

\* the lines a user types at the prompt of add_to_gitignore
EditorLines ==
  {<<"c">>, <<"x">>, <<"sup2">>} \cup {NumStr(n) : n \in 0..(MaxNum + 1)}

\* ------------------------------------------------------------------------
\* Steps shared by the handlers
\* ------------------------------------------------------------------------
\* the handler prints o and the session waits at its prompt again
Stay(o) ==
  /\ pc' = "prompt"
  /\ out' = o
  /\ git_root' = "none" /\ target_rel_path' = <<>> /\ options' = <<>>
  /\ UNCHANGED <<listVars, gitignore, pattern, writes>>

\* the session loop is left
Finish(o) ==
  /\ pc' = "done"
  /\ out' = o
  /\ git_root' = "none" /\ target_rel_path' = <<>> /\ options' = <<>>
  /\ UNCHANGED <<listVars, gitignore, pattern, writes>>

\* an exception nobody catches leaves main with a traceback
Crash(exception) ==
  /\ pc' = "crashed"
  /\ out' = <<Ev("traceback", exception)>>
  /\ git_root' = "none" /\ target_rel_path' = <<>> /\ options' = <<>>
  /\ UNCHANGED <<listVars, gitignore, pattern, writes>>

\* add_to_gitignore(root, target) up to its input loop
EnterDialogue(root, target) ==
  /\ pc' = "pattern"
  /\ out' = <<Ev("ignore_header", "")>>
  /\ git_root' = root
  /\ target_rel_path' = target
  /\ options' = make_options(target)
  /\ UNCHANGED <<listVars, gitignore, pattern, writes>>

\* run_compare(pro_dir, dev_dir, ignore_names) up to its input loop, after the
\* caller has printed `before`
run_compare(before) ==
  /\ git_root' = "none" /\ target_rel_path' = <<>> /\ options' = <<>>
  /\ UNCHANGED <<changes, gitignore, pattern, writes>>
  /\ IF ~exists["pro"] \/ ~exists["dev"]
       THEN /\ pc' = "done"
            /\ out' = before \o <<Ev("error", IF ~exists["pro"] THEN "no_pro"
                                                ELSE "no_dev")>>
            /\ UNCHANGED <<pro_files, dev_files, common_files, only_pro,
                           only_dev, diff_files, target_list>>
       ELSE LET pf == get_all_files("pro", ignore_names)
                df == get_all_files("dev", ignore_names)
                c == classify(sorted(pf \cup df), pf, df, EmptyLists)
            IN /\ pro_files' = pf
               /\ dev_files' = df
               /\ common_files' = c.common_files
               /\ only_pro' = c.only_pro
               /\ only_dev' = c.only_dev
               /\ diff_files' = c.diff_files
               /\ IF c.raised
                    THEN /\ target_list' = <<>>
                         /\ pc' = "crashed"
                         /\ out' = before \o <<Ev("scanning", ""),
                                               Ev("traceback", "OSError")>>
                    ELSE /\ target_list' = make_target_list(c)
                         /\ pc' = IF make_target_list(c) = <<>> THEN "done"
                                  ELSE "prompt"
                         /\ out' = before \o <<Ev("scanning", ""), Menu("none")>>

\* ------------------------------------------------------------------------
\* run_status_check
\* ------------------------------------------------------------------------
\* run_status_check up to its input loop
StartCheck ==
  /\ command = "check" /\ pc = "start"
  /\ UNCHANGED <<envVars, mainVars, command, choice, lastRead, calls>>
  /\ IF get_git_root(Cwd) = "FileNotFoundError" THEN Crash("FileNotFoundError")
     ELSE IF get_git_root(Cwd) = "None" THEN Finish(<<Ev("error", "not_git")>>)
     ELSE /\ changes' = git_status_entries
          /\ pc' = IF git_status_entries = <<>> THEN "done" ELSE "prompt"
          /\ out' = IF git_status_entries = <<>>
                      THEN <<Ev("git_status", ""), Ev("clean", "")>>
                    ELSE <<Ev("git_status", ""), Menu("none")>>
          /\ UNCHANGED <<pro_files, dev_files, common_files, only_pro, only_dev,
                         diff_files, target_list, dlgVars, gitignore, pattern,
                         writes>>

\* status_view that runs git diff on every entry
status_view_diff_only(e) == Ev("diff", "")

\* what a numeric selection shows: the content of an untracked file, the
\* git diff of any other entry
status_view(e) ==
  IF Contains(e.status, StatusUntracked)
    THEN IF e.path \in OnDisk(Cwd) THEN Ev("raw", "") ELSE Ev("raw", "read_failed")
  ELSE Ev("diff", "")

\* StatusInput whose numeric branch tests only idx < len(changes): the number
\* 0 gives the index -1, the last entry of the list
StatusInput_no_lower_bound(line) ==
  /\ command = "check" /\ pc = "prompt"
  /\ lastRead' = "line" /\ choice' = Strip(line)
  /\ UNCHANGED <<envVars, mainVars, command, calls>>
  /\ LET c == Strip(line) IN
       IF Lower(c) = <<"q">> THEN Finish(<<>>)
       ELSE IF c = <<>> THEN Stay(<<Menu("none")>>)
       ELSE IF StartsWith(Lower(c), <<"i">>)
         THEN LET t == Strip(Tail(c)) IN
                IF t = <<>> THEN Stay(<<Menu("need_number")>>)
                ELSE IF ~IntParses(t) THEN Stay(<<Menu("bad_input")>>)
                ELSE IF 0 <= IntOf(t) - 1 /\ IntOf(t) - 1 < Len(changes)
                  THEN IF get_git_root(Cwd) = "FileNotFoundError"
                         THEN Crash("FileNotFoundError")
                       ELSE IF get_git_root(Cwd) = "None"
                         THEN Stay(<<Menu("cancelled")>>)
                       ELSE EnterDialogue(Cwd, changes[IntOf(t)].path)
                ELSE Stay(<<Menu("bad_number")>>)
       ELSE IF IsDigit(c)
         THEN IF ~IntParses(c) THEN Crash("ValueError")
              ELSE IF IntOf(c) - 1 < Len(changes)
                THEN IF changes = <<>> THEN Crash("IndexError")
                     ELSE IF IntOf(c) = 0
                       THEN Stay(<<status_view(changes[Len(changes)])>>)
                     ELSE Stay(<<status_view(changes[IntOf(c)])>>)
              ELSE Stay(<<Menu("bad_number")>>)
       ELSE Stay(<<Menu("bad_input")>>)

\* one command of the loop of run_status_check
StatusInput(line) ==
  /\ command = "check" /\ pc = "prompt"
  /\ lastRead' = "line" /\ choice' = Strip(line)
  /\ UNCHANGED <<envVars, mainVars, command, calls>>
  /\ LET c == Strip(line) IN
       IF Lower(c) = <<"q">> THEN Finish(<<>>)
       ELSE IF c = <<>> THEN Stay(<<Menu("none")>>)
       ELSE IF StartsWith(Lower(c), <<"i">>)
         THEN LET t == Strip(Tail(c)) IN
                IF t = <<>> THEN Stay(<<Menu("need_number")>>)
                ELSE IF ~IntParses(t) THEN Stay(<<Menu("bad_input")>>)
                ELSE IF 0 <= IntOf(t) - 1 /\ IntOf(t) - 1 < Len(changes)
                  THEN IF get_git_root(Cwd) = "FileNotFoundError"
                         THEN Crash("FileNotFoundError")
                       ELSE IF get_git_root(Cwd) = "None"
                         THEN Stay(<<Menu("cancelled")>>)
                       ELSE EnterDialogue(Cwd, changes[IntOf(t)].path)
                ELSE Stay(<<Menu("bad_number")>>)
       ELSE IF IsDigit(c)
         THEN IF ~IntParses(c) THEN Crash("ValueError")
              ELSE IF 0 <= IntOf(c) - 1 /\ IntOf(c) - 1 < Len(changes)
                THEN Stay(<<status_view(changes[IntOf(c)])>>)
              ELSE Stay(<<Menu("bad_number")>>)
       ELSE Stay(<<Menu("bad_input")>>)

\* ------------------------------------------------------------------------
\* run_compare
\* ------------------------------------------------------------------------
StartCompare ==
  /\ command = "compare" /\ pc = "start"
  /\ UNCHANGED <<envVars, mainVars, command, choice, lastRead, calls>>
  /\ run_compare(<<>>)

\* the preview or diff of a selected entry
view(e) ==
  IF e.type = "diff"
    THEN IF e.path \in OnDisk("pro") /\ e.path \in OnDisk("dev")
           THEN Ev("diff", "") ELSE Ev("diff", "error")
  ELSE IF e.type = "dev_only"
    THEN IF e.path \in OnDisk("dev")
           THEN Ev("preview", "") ELSE Ev("preview", "failed")
  ELSE IF e.path \in OnDisk("pro")
    THEN Ev("preview", "") ELSE Ev("preview", "failed")

\* one command of the loop of run_compare
CompareInput(line) ==
  /\ command = "compare" /\ pc = "prompt"
  /\ lastRead' = "line" /\ choice' = Strip(line)
  /\ UNCHANGED <<envVars, mainVars, command, calls>>
  /\ LET c == Strip(line) IN
       IF Lower(c) = <<"q">> THEN Finish(<<>>)
       ELSE IF c = <<>> THEN Stay(<<Menu("none")>>)
       ELSE IF StartsWith(Lower(c), <<"i">>)
         THEN LET t == Strip(Tail(c)) IN
                IF t = <<>> THEN Stay(<<Menu("need_number")>>)
                ELSE IF ~IntParses(t) THEN Stay(<<Menu("bad_input")>>)
                ELSE IF 0 <= IntOf(t) - 1 /\ IntOf(t) - 1 < Len(target_list)
                  THEN IF get_git_root("dev") = "FileNotFoundError"
                         THEN Crash("FileNotFoundError")
                       ELSE IF get_git_root("dev") = "None"
                         THEN Stay(<<Menu("not_repo")>>)
                       ELSE EnterDialogue(get_git_root("dev"),
                                          target_list[IntOf(t)].path)
                ELSE Stay(<<Menu("bad_number")>>)
       ELSE IF IsDigit(c)
         THEN IF ~IntParses(c) THEN Crash("ValueError")
              ELSE IF 0 <= IntOf(c) - 1 /\ IntOf(c) - 1 < Len(target_list)
                THEN Stay(<<view(target_list[IntOf(c)])>>)
              ELSE Stay(<<Menu("bad_number")>>)
       ELSE Stay(<<Menu("bad_input")>>)

\* ------------------------------------------------------------------------
\* add_to_gitignore and the return to its caller
\* ------------------------------------------------------------------------
\* add_to_gitignore from one line read by its input loop to its return:
\*   "again"      : the loop prompts again
\*   "False"      : returns False (cancel, or the write failed)
\*   "True"       : returns True (appended, or already present)
\*   "ValueError" : int(choice) raises, the caller sees the exception
dialogue(line) ==
  LET r == read_choice(line, options) IN
    IF r.kind = "again"
      THEN [kind |-> "again", what |-> "", pat |-> <<>>, file |-> gitignore[git_root]]
    ELSE IF r.kind = "cancel"
      THEN [kind |-> "False", what |-> "cancel", pat |-> <<>>,
            file |-> gitignore[git_root]]
    ELSE IF r.kind = "ValueError"
      THEN [kind |-> "ValueError", what |-> "", pat |-> <<>>,
            file |-> gitignore[git_root]]
    ELSE LET w == write_pattern(gitignore[git_root], options[r.idx + 1], denied)
         IN [kind |-> IF w.ok THEN "True" ELSE "False", what |-> w.what,
             pat |-> options[r.idx + 1], file |-> w.file]

\* the effect of that step on the ignore file
DialogueWrites(d) ==
  /\ pattern' = IF d.pat # <<>> THEN d.pat ELSE pattern
  /\ gitignore' = [gitignore EXCEPT ![git_root] = d.file]
  /\ writes' = IF d.what = "added" THEN writes + 1 ELSE writes

\* one line read by the input loop of add_to_gitignore, the write, and the
\* caller's handling of the result up to the next input
PatternInput(line) ==
  /\ pc = "pattern"
  /\ command \in {"check", "compare"}
  /\ lastRead' = "line" /\ choice' = Strip(line)
  /\ UNCHANGED <<envVars, mainVars, command, calls>>
  /\ LET d == dialogue(line) IN
       IF d.kind = "again"
         THEN /\ pc' = "pattern"
              /\ out' = <<>>
              /\ UNCHANGED <<listVars, dlgVars, gitignore, pattern, writes>>
       ELSE IF d.kind = "ValueError" THEN Stay(<<Menu("bad_input")>>)
       ELSE IF d.what = "cancel" THEN Stay(<<Menu("cancelled")>>)
       ELSE /\ d.what = "added" => writes < MaxWrites
            /\ DialogueWrites(d)
            /\ git_root' = "none" /\ target_rel_path' = <<>> /\ options' = <<>>
            /\ UNCHANGED listVars
            /\ IF d.kind = "True"
                 THEN /\ pc' = "enter"
                      /\ out' = <<Ev(d.what, "")>>
                 ELSE /\ pc' = "prompt"
                      /\ out' = <<Ev(d.what, ""), Menu("cancelled")>>

\* EnterInput whose compare branch redraws the list it has instead of
\* scanning again
EnterInput_no_rescan(line) ==
  /\ pc = "enter"
  /\ command \in {"check", "compare"}
  /\ lastRead' = "line" /\ choice' = line
  /\ UNCHANGED <<envVars, mainVars, command, calls>>
  /\ IF command = "check"
       THEN /\ changes' = git_status_entries
            /\ pc' = "prompt"
            /\ out' = <<Ev("git_status", ""), Menu("updated")>>
            /\ UNCHANGED <<pro_files, dev_files, common_files, only_pro,
                           only_dev, diff_files, target_list, dlgVars,
                           gitignore, pattern, writes>>
       ELSE Stay(<<Ev("rescan", ""), Menu("none")>>)

\* EnterInput whose check branch keeps the change list it has
EnterInput_keep_changes(line) ==
  /\ pc = "enter"
  /\ command \in {"check", "compare"}
  /\ lastRead' = "line" /\ choice' = line
  /\ UNCHANGED <<envVars, mainVars, command, calls>>
  /\ IF command = "check"
       THEN Stay(<<Ev("git_status", ""), Menu("updated")>>)
       ELSE run_compare(<<Ev("rescan", "")>>)

\* the line read by input("... Enter ...") after a successful ignore action,
\* and the rest of the caller's branch
EnterInput(line) ==
  /\ pc = "enter"
  /\ command \in {"check", "compare"}
  /\ lastRead' = "line" /\ choice' = line
  /\ UNCHANGED <<envVars, mainVars, command, calls>>
  /\ IF command = "check"
       THEN IF get_git_root(Cwd) = "FileNotFoundError"
              THEN Crash("FileNotFoundError")
            ELSE /\ changes' = IF get_git_root(Cwd) = "None" THEN <<>>
                               ELSE git_status_entries
                 /\ pc' = "prompt"
                 /\ out' = <<Ev("git_status", ""), Menu("updated")>>
                 /\ UNCHANGED <<pro_files, dev_files, common_files, only_pro,
                                only_dev, diff_files, target_list, dlgVars,
                                gitignore, pattern, writes>>
       ELSE run_compare(<<Ev("rescan", "")>>)

\* KeyboardInterrupt raised by input()
Interrupt ==
  /\ pc \in {"prompt", "pattern", "enter"}
  /\ command \in {"check", "compare"}
  /\ lastRead' = "KeyboardInterrupt" /\ choice' = <<>>
  /\ UNCHANGED <<envVars, mainVars, command, calls>>
  /\ IF pc = "prompt" /\ command = "compare" THEN Finish(<<>>)
     ELSE Finish(<<Ev("closing", "")>>)

\* ------------------------------------------------------------------------
\* add_to_gitignore called on its own
\* ------------------------------------------------------------------------
\* add_to_gitignore(git_root, target) is called
EditorCall(target) ==
  /\ command = "add_to_gitignore"
  /\ pc \in {"start", "returned", "raised"}
  /\ calls < MaxCalls
  /\ calls' = calls + 1
  /\ EnterDialogue("dev", target)
  /\ UNCHANGED <<envVars, mainVars, command, choice, lastRead>>

\* one line read by its input loop, up to the return
EditorInput(line) ==
  /\ command = "add_to_gitignore"
  /\ pc = "pattern"
  /\ lastRead' = "line" /\ choice' = Strip(line)
  /\ UNCHANGED <<envVars, mainVars, command, calls, listVars>>
  /\ LET d == dialogue(line) IN
       IF d.kind = "again"
         THEN /\ pc' = "pattern"
              /\ out' = <<>>
              /\ UNCHANGED <<dlgVars, gitignore, pattern, writes>>
       ELSE /\ DialogueWrites(d)
            /\ UNCHANGED dlgVars
            /\ pc' = IF d.kind = "ValueError" THEN "raised" ELSE "returned"
            /\ out' = <<Ev(d.what, d.kind)>>

\* ------------------------------------------------------------------------
\* Specification
\* ------------------------------------------------------------------------
File(b, m) == [present |-> TRUE, bytes |-> b, mtime |-> m]

ProFileStates == {Absent, File("x", 1)}
DevFileStates == {Absent, File("x", 1), File("x", 2), File("y", 1)}

InitSession ==
  /\ pc = "start"
  /\ changes = <<>>
  /\ pro_files = {} /\ dev_files = {}
  /\ common_files = <<>> /\ only_pro = <<>> /\ only_dev = <<>> /\ diff_files = <<>>
  /\ target_list = <<>>
  /\ git_root = "none" /\ target_rel_path = <<>> /\ options = <<>>
  /\ pattern = <<>>
  /\ choice = <<>> /\ lastRead = "none"
  /\ out = <<>>
  /\ writes = 0
  /\ calls = 0

\* a value main holds for a directory: a str, or None
Given(v) == [given |-> TRUE, value |-> v]

NotGiven == [given |-> FALSE, value |-> ""]

\* bool(x) for such a value
Truthy(x) == x.given /\ x.value # ""

\* load_config() returned None: no file, or a file json.load rejects
NoConfig ==
  [loaded |-> FALSE, has_compare |-> FALSE, pro_dir |-> NotGiven,
   dev_dir |-> NotGiven]

\* main has called the session, with both flags and no configuration file
Launched ==
  /\ args = [pro |-> Given("flag"), dev |-> Given("flag")]
  /\ config = NoConfig
  /\ pro_dir = Given("flag")
  /\ dev_dir = Given("flag")

InitText == [exists |-> TRUE, text |-> <<"a", "b", NL>>]

\* what holds of every environment: both trees are git checkouts or neither
\* is; the index of PRO is empty; a directory that does not exist holds
\* nothing; only the ignore file of a checkout can be protected
EnvOK ==
  /\ gitInstalled \in BOOLEAN
  /\ isRepo \in [Trees -> BOOLEAN]
  /\ isRepo["pro"] = isRepo["dev"]
  /\ gitInstalled \/ ~isRepo["dev"]
  /\ exists \in [Trees -> BOOLEAN]
  /\ (\E t \in Trees : ~exists[t]) => gitInstalled /\ ~isRepo["dev"]
  /\ denied \in BOOLEAN
  /\ ~isRepo["dev"] => ~denied
  /\ tracked \in [Trees -> SUBSET AllPaths]
  /\ tracked["pro"] = {}
  /\ ~isRepo["dev"] \/ denied => tracked["dev"] = {}
  /\ ignore_names \in {{}, {<<"d">>}}
  /\ gitignore \in [Trees -> {NoFile, InitText}]
  /\ gitignore["pro"].exists => gitignore["dev"].exists
  /\ disk \in [Trees -> [AllPaths -> DevFileStates]]
  /\ \A p \in AllPaths : disk["pro"][p] \in ProFileStates
  /\ (\E t \in Trees : ~exists[t]) =>
        /\ ignore_names = {}
        /\ \A t \in Trees : gitignore[t] = NoFile
        /\ \A t \in Trees : \A p \in AllPaths : disk[t][p] = Absent

\* the sessions: every file has the same modification time, PRO has no
\* ignore file, ignore_names is empty, the index of DEV holds PathA or
\* nothing; `check` does not look at PRO
Init ==
  /\ InitSession
  /\ Launched
  /\ command \in {"check", "compare"}
  /\ EnvOK
  /\ ignore_names = {}
  /\ gitignore["pro"] = NoFile
  /\ tracked["dev"] \subseteq {PathA}
  /\ \A t \in Trees : \A p \in AllPaths : disk[t][p].mtime <= 1
  /\ command = "check" =>
        /\ \A t \in Trees : exists[t]
        /\ \A p \in AllPaths : disk["pro"][p] = Absent

Next ==
  \/ StartCheck
  \/ StartCompare
  \/ \E line \in Lines : StatusInput(line)
  \/ \E line \in Lines : CompareInput(line)
  \/ \E line \in EditorLines : PatternInput(line)
  \/ \E line \in {<<>>} : EnterInput(line)
  \/ Interrupt

Spec == Init /\ [][Next]_vars

TextChars == {"a", "d", "/", NL}

\* the strings over TextChars of length at most n
RECURSIVE Texts(_)
Texts(n) ==
  IF n = 0 THEN {<<>>}
  ELSE Texts(n - 1) \cup {Append(t, c) : t \in Texts(n - 1), c \in TextChars}

\* add_to_gitignore alone, in a checkout, over every short ignore file
InitEditor ==
  /\ InitSession
  /\ Launched
  /\ command = "add_to_gitignore"
  /\ gitInstalled = TRUE
  /\ isRepo = [t \in Trees |-> TRUE]
  /\ exists = [t \in Trees |-> TRUE]
  /\ disk = [t \in Trees |-> [p \in AllPaths |-> Absent]]
  /\ tracked = [t \in Trees |-> {}]
  /\ denied \in BOOLEAN
  /\ ignore_names = {}
  /\ \E f \in {NoFile} \cup {[exists |-> TRUE, text |-> t] : t \in Texts(MaxInitLen)} :
        gitignore = [t \in Trees |-> IF t = "dev" THEN f ELSE NoFile]

NextEditor ==
  \/ \E target \in AllPaths \cup {GitignoreName} : EditorCall(target)
  \/ \E line \in EditorLines : EditorInput(line)

SpecEditor == InitEditor /\ [][NextEditor]_vars

\* the scan of run_compare alone, over every environment
InitScan ==
  /\ InitSession
  /\ Launched
  /\ command = "compare"
  /\ EnvOK

NextScan == StartCompare

SpecScan == InitScan /\ [][NextScan]_vars

PathChars == {"a", ".", "/"}

\* the strings over PathChars of length at most n
RECURSIVE PathStrings(_)
PathStrings(n) ==
  IF n = 0 THEN {<<>>}
  ELSE PathStrings(n - 1)
         \cup {Append(t, c) : t \in PathStrings(n - 1), c \in PathChars}

\* t is a path as a caller passes it: relative, without empty, "." or ".."
\* components; git status ends the path of an untracked directory with "/"
IsTarget(t) ==
  /\ t # <<>>
  /\ Head(t) # "/"
  /\ \A k \in 1..(Len(t) - 1) : ~(t[k] = "/" /\ t[k + 1] = "/")
  /\ \A k \in 1..Len(Parts(t)) : Parts(t)[k] \notin {<<".">>, <<".", ".">>}

Targets == {t \in PathStrings(MaxPathLen) : IsTarget(t)}

\* add_to_gitignore called once, with every short target
InitOptions ==
  /\ InitSession
  /\ Launched
  /\ command = "add_to_gitignore"
  /\ gitInstalled = TRUE
  /\ isRepo = [t \in Trees |-> TRUE]
  /\ exists = [t \in Trees |-> TRUE]
  /\ disk = [t \in Trees |-> [p \in AllPaths |-> Absent]]
  /\ tracked = [t \in Trees |-> {}]
  /\ denied \in BOOLEAN
  /\ ignore_names = {}
  /\ gitignore = [t \in Trees |-> NoFile]

FirstCall(target) == pc = "start" /\ EditorCall(target)

NextOptions ==
  \/ \E target \in Targets : FirstCall(target)
  \/ \E line \in EditorLines : EditorInput(line)

SpecOptions == InitOptions /\ [][NextOptions]_vars

\* what --pro and --dev hold after parse_args
ArgValues == {NotGiven, Given(""), Given("flag")}

\* what config['compare'].get('pro_dir') and .get('dev_dir') return
ConfigValues == {NotGiven, Given(""), Given("config")}

\* what load_config() returns: None, an object without the key compare, an
\* object whose compare is an object
Configs ==
  {NoConfig}
    \cup {[loaded |-> TRUE, has_compare |-> FALSE, pro_dir |-> NotGiven,
           dev_dir |-> NotGiven]}
    \cup {[loaded |-> TRUE, has_compare |-> TRUE, pro_dir |-> p, dev_dir |-> d] :
           p \in ConfigValues, d \in ConfigValues}

\* the branch of main for `compare`: the merge of flags and configuration,
\* then the usage message or run_compare up to its input loop
MainCompare ==
  /\ command = "compare" /\ pc = "main"
  /\ UNCHANGED <<envVars, args, config, command, choice, lastRead, calls>>
  /\ LET merge == config.loaded /\ config.has_compare
         p == IF merge /\ ~Truthy(args.pro) THEN config.pro_dir ELSE args.pro
         d == IF merge /\ ~Truthy(args.dev) THEN config.dev_dir ELSE args.dev
     IN /\ pro_dir' = p
        /\ dev_dir' = d
        /\ IF ~Truthy(p) \/ ~Truthy(d) THEN Finish(<<Ev("usage", "")>>)
           ELSE run_compare(<<>>)

\* `compare` is started with every combination of flags and configuration;
\* ignore_names is empty unless the configuration has the key compare
InitMain ==
  /\ command = "compare"
  /\ pc = "main"
  /\ changes = <<>>
  /\ pro_files = {} /\ dev_files = {}
  /\ common_files = <<>> /\ only_pro = <<>> /\ only_dev = <<>> /\ diff_files = <<>>
  /\ target_list = <<>>
  /\ git_root = "none" /\ target_rel_path = <<>> /\ options = <<>>
  /\ pattern = <<>>
  /\ choice = <<>> /\ lastRead = "none"
  /\ out = <<>>
  /\ writes = 0
  /\ calls = 0
  /\ args \in [pro : ArgValues, dev : ArgValues]
  /\ config \in Configs
  /\ pro_dir = NotGiven /\ dev_dir = NotGiven
  /\ EnvOK
  /\ gitInstalled
  /\ ~denied
  /\ \A t \in Trees : tracked[t] = {} /\ gitignore[t] = NoFile
  /\ \A t \in Trees : \A p \in AllPaths : disk[t][p].mtime <= 1
  /\ ~(config.loaded /\ config.has_compare) => ignore_names = {}

NextMain == MainCompare

SpecMain == InitMain /\ [][NextMain]_vars

\* ------------------------------------------------------------------------
\* Properties
\* ------------------------------------------------------------------------
Range(s) == {s[k] : k \in 1..Len(s)}

Occurrences(s, p) == Cardinality({k \in 1..Len(s) : s[k] = p})

\* in how many of the four classes, counting repetitions, path p is
ClassCount(p) ==
  Occurrences(common_files, p) + Occurrences(diff_files, p)
    + Occurrences(only_pro, p) + Occurrences(only_dev, p)

Classified ==
  Range(common_files) \cup Range(diff_files) \cup Range(only_pro)
    \cup Range(only_dev)

\* run_compare has enumerated the two trees
Enumerated == pc # "start" /\ exists["pro"] /\ exists["dev"]

\* C1: once the directory comparison has been given the two enumerations,
\* every path of their union is in exactly one of the four classes identical,
\* modified, left-only, right-only, and no other path is in any class.
C1_Partition ==
  Enumerated =>
    /\ \A p \in pro_files \cup dev_files : ClassCount(p) = 1
    /\ Classified \subseteq pro_files \cup dev_files

\* the two files of path p differ in content
ContentsDiffer(p) ==
  \/ (p \in OnDisk("pro")) # (p \in OnDisk("dev"))
  \/ p \in OnDisk("pro") /\ p \in OnDisk("dev") /\ Bytes("pro", p) # Bytes("dev", p)

\* C2: the classification is the reference partition: a path of both
\* enumerations is Modified iff the contents of its two files differ and
\* Identical otherwise, a path of the left enumeration only is LeftOnly, a
\* path of the right enumeration only is RightOnly.
C2_ReferencePartition ==
  Enumerated =>
    /\ Range(diff_files) = {p \in pro_files \cap dev_files : ContentsDiffer(p)}
    /\ Range(common_files) = {p \in pro_files \cap dev_files : ~ContentsDiffer(p)}
    /\ Range(only_pro) = pro_files \ dev_files
    /\ Range(only_dev) = dev_files \ pro_files

\* add_to_gitignore has just returned from a confirmed choice
Confirmed ==
  /\ pc = "returned"
  /\ out # <<>>
  /\ out[1].what \in {"added", "already_present", "write_error"}

\* C3: confirming the pattern that was confirmed last once more leaves the
\* ignore file as the first confirmation left it.
C3_AddIsIdempotent ==
  [][(pc = "pattern" /\ Confirmed' /\ pattern' = pattern)
       => gitignore' = gitignore]_vars

\* the same pattern was confirmed twice: the first call appended it, the
\* second found it
C3_Witness ==
  /\ Confirmed
  /\ calls = 2
  /\ writes = 1
  /\ out[1].what = "already_present"
  /\ EndsWith(gitignore["dev"].text, <<NL>> \o pattern \o <<NL>>)

\* the enumerations and the display list a scan of the trees as they are
\* now yields
FreshPro == get_all_files("pro", ignore_names)

FreshDev == get_all_files("dev", ignore_names)

ListPaths(type) ==
  {target_list[k].path : k \in {j \in 1..Len(target_list) : target_list[j].type = type}}

ListIsFresh ==
  /\ pro_files = FreshPro
  /\ dev_files = FreshDev
  /\ ListPaths("diff") = {p \in pro_files \cap dev_files : ContentsDiffer(p)}
  /\ ListPaths("dev_only") = dev_files \ pro_files
  /\ ListPaths("pro_only") = pro_files \ dev_files
  /\ Len(target_list) = Cardinality((pro_files \cup dev_files) \ Range(common_files))

\* C4: in the compare session every command is resolved against a list
\* that is the classification of the trees as they are after the last
\* successful ignore action: the step after such an action scans both trees
\* again, and the list at the prompt and in the pattern dialogue is never the
\* one from before.
C4_RescanAfterIgnore ==
  (/\ command = "compare"
   /\ \/ pc \in {"prompt", "pattern"}
      \/ out # <<>> /\ out[1] = Ev("rescan", ""))
    => ListIsFresh

\* the session is back at its prompt after an ignore action that removed a
\* file of DEV from the enumeration
C4_Witness ==
  /\ command = "compare"
  /\ pc = "prompt"
  /\ out # <<>> /\ out[1] = Ev("rescan", "")
  /\ writes = 1
  /\ \E p \in AllPaths : disk["dev"][p].present /\ p \notin dev_files

\* c is a number of an entry of a list of n entries
ValidNumber(c, n) == AllAscii(c) /\ 1 <= DecVal(c) /\ DecVal(c) <= n

\* c is the ignore command with the number of an entry of a list of n entries
ValidIgnoreCommand(c, n) ==
  /\ StartsWith(Lower(c), <<"i">>)
  /\ IntParses(Tail(c))
  /\ 1 <= IntOf(Tail(c)) /\ IntOf(Tail(c)) <= n

\* c is neither empty, nor quit, nor a number of the list, nor an ignore
\* command with a number of the list
InvalidCommand(c, n) ==
  /\ c # <<>>
  /\ Lower(c) # <<"q">>
  /\ ~ValidNumber(c, n)
  /\ ~ValidIgnoreCommand(c, n)

\* a menu, a menu with an error banner
MenuDrawn(o) == \E k \in 1..Len(o) : o[k].what = "menu"

ErrorMenu(o) == Len(o) = 1 /\ o[1].what = "menu" /\ o[1].msg # "none"

\* the length of the list the session shows
ListLen == IF command = "check" THEN Len(changes) ELSE Len(target_list)

\* C5: in the compare session the ignore action writes to the ignore file of
\* the root of DEV only, and when that root cannot be determined it reports
\* failure: no ignore file is written, the pattern prompt is not entered and
\* the list is unchanged.
C5_IgnoreTargetsDevRoot ==
  [][command = "compare" =>
       /\ gitignore'["pro"] = gitignore["pro"]
       /\ gitignore' # gitignore => git_root = "dev" /\ GitRuns("dev")
       /\ (/\ pc = "prompt" /\ lastRead' = "line"
           /\ ValidIgnoreCommand(choice', Len(target_list))
           /\ ~GitRuns("dev"))
            => /\ pc' = "prompt"
               /\ out' = <<Menu("not_repo")>>
               /\ gitignore' = gitignore
               /\ target_list' = target_list]_vars

\* git status has been run by the last handler
Refetched(o) == \E k \in 1..Len(o) : o[k] = Ev("git_status", "")

\* C6 as stated: whenever the pattern dialogue of the status session is over
\* and the session is back at its prompt, the change list has been fetched
\* again and the menu shows the confirmation or the cancellation message.
C6_RefetchOnCompletion ==
  [][(command = "check" /\ pc \in {"pattern", "enter"} /\ pc' = "prompt")
       => /\ Refetched(out')
          /\ out'[Len(out')] \in {Menu("updated"), Menu("cancelled")}]_vars

\* C6 amended: `i N` with a number of the list enters the pattern dialogue;
\* after a dialogue that returned success the line read at the Enter prompt
\* makes the session fetch the change list again and redraw the menu with
\* the confirmation; a dialogue that ends otherwise (cancel, failed write, a
\* choice int() rejects) leaves the change list as it is, without fetching,
\* and the menu is redrawn with the cancellation or invalid-input message.
C6_RefetchOnSuccess ==
  [][command = "check" =>
       /\ (/\ pc = "prompt" /\ lastRead' = "line"
           /\ ValidIgnoreCommand(choice', Len(changes)))
            => pc' = "pattern" /\ changes' = changes
       /\ (pc = "pattern" /\ lastRead' = "line")
            => /\ pc' \in {"pattern", "prompt", "enter"}
               /\ pc' = "enter" <=>
                    (out' # <<>> /\ out'[1].what \in {"added", "already_present"})
       /\ (pc = "enter" /\ lastRead' = "line")
            => /\ pc' = "prompt"
               /\ out' = <<Ev("git_status", ""), Menu("updated")>>
               /\ gitignore' = gitignore
               /\ changes' = git_status_entries
       /\ (pc = "pattern" /\ pc' = "prompt")
            => /\ changes' = changes
               /\ ~Refetched(out')
               /\ out'[Len(out')] \in {Menu("cancelled"), Menu("bad_input")}]_vars

\* the status session is back at its prompt after a successful ignore action
\* that took the ignored file off the change list
C6_Witness ==
  /\ command = "check"
  /\ pc = "prompt"
  /\ out = <<Ev("git_status", ""), Menu("updated")>>
  /\ writes = 1
  /\ \E p \in AllPaths :
       /\ p \in OnDisk(Cwd) \ tracked[Cwd]
       /\ \A k \in 1..Len(changes) : changes[k].path # p

\* C7: an interrupt at any blocking input ends the session cleanly: the
\* closing message is printed, no file is written, and nothing is done after
\* the session has ended.
C7_InterruptClosesSession ==
  [][/\ pc # "done"
     /\ lastRead' = "KeyboardInterrupt"
          => /\ pc' = "done"
             /\ out' = <<Ev("closing", "")>>
             /\ gitignore' = gitignore]_vars

\* C8: in both sessions an invalid input redraws the menu with an error
\* banner and changes nothing: the list and the ignore files are as before
\* and the session waits for the next command.
C8_InvalidInputNoChange ==
  [][(/\ command \in {"check", "compare"}
      /\ pc = "prompt" /\ lastRead' = "line"
      /\ InvalidCommand(choice', ListLen))
       => /\ pc' = "prompt"
          /\ ErrorMenu(out')
          /\ changes' = changes
          /\ target_list' = target_list
          /\ gitignore' = gitignore]_vars

\* C9: in the status session a number of the list shows the content of the
\* file when the entry is untracked and the diff otherwise, draws no menu and
\* leaves the change list and the prompt as they are; a command at the prompt
\* draws the menu only if it is empty, invalid or an ignore command.
C9_ViewLeavesMenu ==
  [][(command = "check" /\ pc = "prompt") =>
       /\ (lastRead' = "line" /\ ValidNumber(choice', Len(changes)))
            => /\ pc' = "prompt"
               /\ changes' = changes
               /\ Len(out') = 1
               /\ out'[1].what =
                    IF changes[DecVal(choice')].status = StatusUntracked
                      THEN "raw" ELSE "diff"
       /\ MenuDrawn(out')
            => /\ lastRead' = "line"
               /\ \/ choice' = <<>>
                  \/ InvalidCommand(choice', Len(changes))
                  \/ StartsWith(Lower(choice'), <<"i">>)]_vars

\* the content of an untracked file has just been shown in the status
\* session
C9_Witness ==
  /\ command = "check"
  /\ pc = "prompt"
  /\ lastRead = "line"
  /\ ValidNumber(choice, Len(changes))
  /\ changes[DecVal(choice)].status = StatusUntracked
  /\ out = <<Ev("raw", "")>>

\* C10: no failure to read a file during a compare run leaves the run: it
\* is caught where it happens and the session goes on.
C10_IOErrorsAreCaught ==
  command = "compare" =>
    \A k \in 1..Len(out) : out[k] # Ev("traceback", "OSError")

\* the index of the last occurrence of ch in s, 0 if there is none
LastIndex(s, ch) ==
  LET ks == {k \in 1..Len(s) : s[k] = ch}
  IN IF ks = {} THEN 0 ELSE CHOOSE k \in ks : \A j \in ks : j <= k

\* the candidates as the claim lists them, read off the characters of the
\* target: the path; "*" and the name from its last dot on, when that dot is
\* neither the first nor the last character of the name; the text before the
\* last slash and "/", when there is a slash inside the path
ExpectedOptions(t) ==
  LET p == IF t[Len(t)] = "/" THEN SubSeq(t, 1, Len(t) - 1) ELSE t
      sl == LastIndex(p, "/")
      n == SubSeq(p, sl + 1, Len(p))
      d == LastIndex(n, ".")
  IN <<t>>
       \o (IF 1 < d /\ d < Len(n) THEN << <<"*">> \o SubSeq(n, d, Len(n)) >>
           ELSE <<>>)
       \o (IF sl > 0 THEN << SubSeq(p, 1, sl - 1) \o <<"/">> >> ELSE <<>>)

\* C11: whenever add_to_gitignore offers its candidates, they are the exact
\* path, then "*" + extension iff the name has an extension, then "<parent>/"
\* iff the path has a parent other than the root, in this order; a target
\* below a directory is offered at least the path and that directory, a
\* root-level file without extension exactly one candidate
C11_CandidateOrder ==
  pc = "pattern" =>
    /\ options = ExpectedOptions(target_rel_path)
    /\ options[1] = target_rel_path
    /\ (/\ StartsWith(target_rel_path, <<"a", "/">>)
        /\ Len(target_rel_path) > 2
        /\ \A k \in 3..Len(target_rel_path) : target_rel_path[k] # "/") =>
          /\ Len(options) >= 2
          /\ options[Len(options)] = <<"a", "/">>
    /\ (\A k \in 1..Len(target_rel_path) : target_rel_path[k] = "a") =>
          Len(options) = 1

\* a target with an extension and a parent directory has been offered its
\* three candidates
C11_Witness ==
  /\ pc = "pattern"
  /\ target_rel_path = <<"a", "/", "a", ".", "a">>
  /\ options = << <<"a", "/", "a", ".", "a">>, <<"*", ".", "a">>, <<"a", "/">> >>

\* the entries of one group of the display list
Group(type, files) == [k \in 1..Len(files) |-> [type |-> type, path |-> files[k]]]

\* the paths of s are in strictly increasing lexicographic order
Increasing(s) == \A i, j \in 1..Len(s) : i < j => StrLess(s[i], s[j])

\* Modified, then RightOnly, then LeftOnly
Concatenation ==
  Group("diff", diff_files) \o Group("dev_only", only_dev)
    \o Group("pro_only", only_pro)

\* the compare session holds a display list
HasDisplayList == command = "compare" /\ pc \in {"prompt", "pattern", "enter", "done"}

\* C12: the display list of the compare session is all Modified entries,
\* then all RightOnly entries, then all LeftOnly entries, each group in
\* lexicographic order of the paths; no identical file is in the list; the
\* number N typed at the menu, alone or after `i`, selects the N-th element
\* of that concatenation.
C12_DisplayOrder ==
  /\ [](HasDisplayList =>
         /\ target_list = Concatenation
         /\ Range(diff_files) = {p \in pro_files \cap dev_files : ContentsDiffer(p)}
         /\ Range(only_dev) = dev_files \ pro_files
         /\ Range(only_pro) = pro_files \ dev_files
         /\ Increasing(diff_files) /\ Increasing(only_dev) /\ Increasing(only_pro)
         /\ \A k \in 1..Len(target_list) :
               target_list[k].path \notin Range(common_files))
  /\ [][(command = "compare" /\ pc = "prompt" /\ lastRead' = "line") =>
         /\ ValidNumber(choice', Len(target_list)) =>
               /\ Len(out') = 1
               /\ out'[1].what =
                     IF Concatenation[DecVal(choice')].type = "diff" THEN "diff"
                     ELSE "preview"
         /\ (ValidIgnoreCommand(choice', Len(target_list)) /\ pc' = "pattern") =>
               target_rel_path' = Concatenation[IntOf(Tail(choice'))].path]_vars

\* the session shows a list with a modified file, a file of DEV only and a
\* file of PRO only
C12_Witness ==
  /\ command = "compare" /\ pc = "prompt"
  /\ diff_files # <<>> /\ only_dev # <<>> /\ only_pro # <<>>
  /\ Len(target_list) = 3

\* the configuration supplies a value under the key k of its compare object
ConfigHas(k) == config.loaded /\ config.has_compare /\ config[k].given

\* something has been enumerated or a session started
ScanStarted(o) == \E k \in 1..Len(o) : o[k].what \in {"scanning", "menu", "error"}

\* C13: for `compare`, each directory is the value of its flag when the flag
\* is given and the value of the configuration only when the flag is absent;
\* when a directory is supplied by neither, the usage message is printed, no
\* session is started and nothing is enumerated.
C13_FlagsOverrideConfig ==
  [][(command = "compare" /\ pc = "main") =>
       /\ args.pro.given => pro_dir' = args.pro
       /\ args.dev.given => dev_dir' = args.dev
       /\ (~args.pro.given /\ ConfigHas("pro_dir")) => pro_dir' = config.pro_dir
       /\ (~args.dev.given /\ ConfigHas("dev_dir")) => dev_dir' = config.dev_dir
       /\ (\/ ~args.pro.given /\ ~ConfigHas("pro_dir")
           \/ ~args.dev.given /\ ~ConfigHas("dev_dir")) =>
             /\ out' = <<Ev("usage", "")>>
             /\ pc' = "done"
             /\ ~ScanStarted(out')
             /\ pro_files' = {} /\ dev_files' = {} /\ target_list' = <<>>]_vars

\* a session is in its command loop: at its prompt, or in the pattern
\* dialogue or at the Enter prompt of an ignore action
InLoop == command \in {"check", "compare"} /\ pc \in {"prompt", "pattern", "enter"}

\* C14: a session that has entered its command loop ends only on the quit
\* command or on an interrupt of the input; views, redraws, invalid input
\* and cancelled or successful ignore actions, also one that leaves the list
\* empty, do not end it.
C14_EndsOnlyOnQuitOrInterrupt ==
  [][(InLoop /\ pc' \notin {"prompt", "pattern", "enter"}) =>
       \/ lastRead' = "KeyboardInterrupt"
       \/ pc = "prompt" /\ lastRead' = "line" /\ Lower(choice') = <<"q">>]_vars

\* pat occurs in text as a substring
Occurs(text, pat) ==
  \E i \in 0..(Len(text) - Len(pat)) : SubSeq(text, i + 1, i + Len(pat)) = pat

\* the editor reads a number of one of its candidates
ChoiceConfirmed ==
  /\ command = "add_to_gitignore" /\ pc = "pattern"
  /\ lastRead' = "line"
  /\ ValidNumber(choice', Len(options))

\* the editor has returned True
ReturnedSuccess(o) == Len(o) = 1 /\ o[1].msg = "True"

\* the file is as before, or is the old content followed by the pattern on
\* a line of its own
ContainmentOrAppend(pat) ==
  IF gitignore[git_root].exists /\ Occurs(gitignore[git_root].text, pat)
    THEN gitignore' = gitignore
  ELSE gitignore' =
         [gitignore EXCEPT ![git_root] =
            [exists |-> TRUE,
             text |-> gitignore[git_root].text \o <<NL>> \o pat \o <<NL>>]]

\* C15 as stated: on a confirmed choice the editor leaves the ignore file
\* unchanged and returns success when the pattern occurs anywhere in the
\* file, and otherwise appends the pattern on a line of its own, keeps the
\* previous content and returns success.
C15_ContainmentOrAppend ==
  [][ChoiceConfirmed =>
       /\ ContainmentOrAppend(options[DecVal(choice')])
       /\ pc' = "returned" /\ ReturnedSuccess(out')]_vars

\* C15 amended: that holds when the ignore file can be opened; when opening
\* it fails, the editor leaves the file as it is and returns failure.
C15_ContainmentOrAppendUnlessIOError ==
  [][ChoiceConfirmed =>
       /\ pc' = "returned"
       /\ ~denied =>
             /\ ContainmentOrAppend(options[DecVal(choice')])
             /\ ReturnedSuccess(out')
       /\ denied =>
             /\ gitignore' = gitignore
             /\ out' = <<Ev("write_error", "False")>>]_vars

\* a pattern that did not occur in a file with content has been appended
C15_Witness ==
  /\ command = "add_to_gitignore" /\ pc = "returned"
  /\ out = <<Ev("added", "True")>>
  /\ Len(gitignore["dev"].text) > Len(pattern) + 2
  /\ EndsWith(gitignore["dev"].text, <<NL>> \o pattern \o <<NL>>)

\* C16: the pattern dialogue goes on until the input is the cancel option or
\* the number of a candidate; every other input prompts again without any
\* effect; cancel returns failure and leaves the ignore file as it is; the
\* ignore file is written only after the number of a candidate, and the
\* pattern written is that candidate.
C16_DialogueBlocksUntilChoice ==
  [][(command = "add_to_gitignore" /\ pc = "pattern" /\ lastRead' = "line") =>
       /\ (Lower(choice') # <<"c">> /\ ~ValidNumber(choice', Len(options))) =>
             /\ pc' = "pattern"
             /\ out' = <<>>
             /\ UNCHANGED <<gitignore, git_root, target_rel_path, options,
                            pattern, writes>>
       /\ Lower(choice') = <<"c">> =>
             /\ pc' = "returned"
             /\ out' = <<Ev("cancel", "False")>>
             /\ gitignore' = gitignore
       /\ gitignore' # gitignore =>
             /\ ValidNumber(choice', Len(options))
             /\ gitignore'[git_root].text =
                  gitignore[git_root].text \o <<NL>>
                    \o options[DecVal(choice')] \o <<NL>>]_vars

\* c is a number, alone or after `i`, that is not the number of an entry of
\* a list of n entries
NumberOutOfRange(c, n) ==
  \/ AllAscii(c) /\ (DecVal(c) < 1 \/ DecVal(c) > n)
  \/ /\ StartsWith(Lower(c), <<"i">>)
     /\ IntParses(Tail(c))
     /\ (IntOf(Tail(c)) < 1 \/ IntOf(Tail(c)) > n)

\* what the handler printed is the view of an entry
ViewShown(o) == o # <<>> /\ o[1].what \in {"raw", "diff", "preview"}

\* the paths of the list the session holds
HeldPaths ==
  IF command = "check" THEN [k \in 1..Len(changes) |-> changes[k].path]
  ELSE [k \in 1..Len(target_list) |-> target_list[k].path]

\* C17: in both sessions an entry is looked up only with the number of an
\* entry of the list the session holds at that moment; a number outside that
\* list, also one that was the number of an entry before the list was
\* fetched again, gets the invalid-number message and no entry is looked up.
C17_LookupsInRange ==
  [][(command \in {"check", "compare"} /\ pc = "prompt" /\ lastRead' = "line") =>
       /\ ViewShown(out') => ValidNumber(choice', ListLen)
       /\ pc' = "pattern" =>
             /\ ValidIgnoreCommand(choice', ListLen)
             /\ target_rel_path' = HeldPaths[IntOf(Tail(choice'))]
       /\ NumberOutOfRange(choice', ListLen) =>
             /\ pc' = "prompt"
             /\ out' = <<Menu("bad_number")>>
             /\ UNCHANGED <<listVars, gitignore>>]_vars

\* the status session listed .gitignore and d/, the user ignored d/, the
\* list was fetched again with one entry, and the number 2 was rejected
C17_Witness ==
  /\ command = "check" /\ pc = "prompt"
  /\ writes = 1
  /\ gitignore["dev"].text = InitText.text \o <<NL, "d", "/", NL>>
  /\ Len(changes) = 1
  /\ choice = <<"2">>
  /\ out = <<Menu("bad_number")>>

\* name is one of the components of the path p
IsComponent(name, p) ==
  \/ p = name
  \/ StartsWith(p, name \o <<"/">>)
  \/ EndsWith(p, <<"/">> \o name)
  \/ Occurs(p, <<"/">> \o name \o <<"/">>)

ExcludedByName(p) == \E name \in ignore_names : IsComponent(name, p)

\* what the strategy chosen for tree t lists: the output of git ls-files,
\* or the files of the walk outside the built-in denylist
Listed(t) ==
  IF GitRuns(t) THEN git_ls_files(t)
  ELSE {p \in OnDisk(t) :
          /\ \A name \in {DotGit, PyCache} : ~IsComponent(name, p)
          /\ ~(p = DSStore \/ EndsWith(p, <<"/">> \o DSStore))}

\* C18: under both strategies the enumeration of a tree is the files the
\* strategy lists without those with a component in ignore_names; no path
\* with such a component is in an enumeration, in a class or in the display
\* list.
C18_IgnoreNamesExcluded ==
  Enumerated =>
    /\ pro_files = {p \in Listed("pro") : ~ExcludedByName(p)}
    /\ dev_files = {p \in Listed("dev") : ~ExcludedByName(p)}
    /\ \A p \in pro_files \cup dev_files \cup Classified : ~ExcludedByName(p)
    /\ \A k \in 1..Len(target_list) : ~ExcludedByName(target_list[k].path)

\* the walk of DEV found d/b.x and a, ignore_names holds d, and only a was
\* returned
C18_Witness ==
  /\ Enumerated
  /\ ~GitRuns("dev")
  /\ ignore_names = {<<"d">>}
  /\ PathDBX \in OnDisk("dev") /\ PathA \in OnDisk("dev")
  /\ PathA \in dev_files /\ PathDBX \notin dev_files


====
